---- MODULE Spec2Model ----
(***************************************************************************)
(* Model of MoemailClient (src/core/moemail_client.py): a client of a      *)
(* disposable-mailbox service.  The client is single-threaded: one public  *)
(* operation runs at a time.  A step of the model runs the code of the     *)
(* running operation up to its next interaction with the environment, that *)
(* is the return of an HTTP request (the provider and the transport choose *)
(* the response), the next entry of the message list the provider          *)
(* returned, or the end of a sleep.                                        *)
(***************************************************************************)
EXTENDS Integers, Sequences, FiniteSets

(* ---------------------------------------------------------------- bounds *)
MaxTimeout == 3
MaxInterval == 2
MaxMsgs == 2
MaxTs == 2
MaxReqDur == 1

(* ---------------------------------------------------------------- values *)
None == "None"
Pending == "pending"
ZeroDivisionError == "raise:ZeroDivisionError"
ValueError == "raise:ValueError"
Raised == {ZeroDivisionError, ValueError}
DefaultDomain == "moemail.app"

Codes == {"c1", "c2"}
\* A piece of text: empty, text holding no code, or text holding a code.
Content == {"", "txt"} \cup Codes
Addresses == {"a1@d1"}
UserAddresses == {"u1@d1"}
Identifiers == {"id1", "id2"}
Statuses == {200, 201, 404, 500}

\* Python truthiness of an optional string.
Truthy(v) == v \notin {None, ""}

Range(s) == {s[k] : k \in 1..Len(s)}

VARIABLES
    email, email_id, password, available_domains, domain, log_callback,
    pc, op, ret,
    timeout, interval, since_time, max_retries, i,
    idx, msg, disp, disps, code,
    reqs, config_res, create_res, list_res, detail_res, trace, clock, logcalls,
    provCalled, provOk, domain_arg, looked_up

client == <<email, email_id, password, available_domains, domain, log_callback>>
pollvars == <<timeout, interval, max_retries, i, trace>>
fetchvars == <<since_time, idx, msg, disp, disps>>
history == <<reqs, create_res, clock>>
ghost == <<provCalled, provOk, looked_up>>
\* The responses the running call received, and the argument of
\* register_account.
regvars == <<config_res, domain_arg>>
respvars == <<list_res, detail_res>>
vars == <<client, pc, op, ret, code, pollvars, fetchvars, history, logcalls, ghost,
          regvars, respvars>>

(* ------------------------------------------------------------ inputs *)
NoSince == [given |-> FALSE, aware |-> FALSE, t |-> 0]
\* since_time: absent, or a datetime that is naive or timezone-aware.
Sinces == {NoSince} \cup {[given |-> TRUE, aware |-> a, t |-> 1] : a \in BOOLEAN}

\* The value of msg.get("createdAt") or msg.get("receivedAt"): absent, a
\* value the parsing rejects (not ISO-8601, or not a string), or an instant.
NoTs == [kind |-> "absent", t |-> 0]
Timestamps == {NoTs, [kind |-> "bad", t |-> 0]}
              \cup {[kind |-> "at", t |-> n] : n \in 0..MaxTs}

\* The entries of a message list, as the provider shapes them.  The id of an
\* entry that has one is its position in the list.
NoMsg == [id |-> 0, ts |-> NoTs, content |-> ""]
Shapes == {[hasId |-> FALSE, ts |-> NoTs, content |-> ""]}
          \cup [hasId : {TRUE}, ts : Timestamps, content : Content]

Timeouts == (-2)..MaxTimeout
Intervals == (-1)..MaxInterval
Durations == 0..MaxReqDur
DomainArgs == {None, "", "arg.dom"}
ConfiguredDomains == {"", "cfg.dom"}
\* log_callback: none, or a callable that raises on every call.
Callbacks == {"none", "raises"}

\* A comma-separated string is the sequence of its segments; "" is the one
\* empty segment, " " a segment of white space.
DomainStrings == {<<"">>, <<" ">>, <<"d1">>, <<"d1", " ">>, <<"d1", "d2">>, <<" ", "">>}

\* What an HTTP request can end in: a transport exception, or a response
\* with a status and a body.
Exc == [exc |-> TRUE, status |-> 0]
Outcomes == {Exc} \cup [exc : {FALSE}, status : Statuses]
ConfigBodies == [json : BOOLEAN, emailDomains : DomainStrings]
\* A create body: json is FALSE for content that is no JSON mapping; a
\* missing or empty field reads as "" (also in an empty body).
CreateBodies ==
    {b \in [json : BOOLEAN, email : {""} \cup Addresses, id : {""} \cup Identifiers] :
        ~b.json => b.email = "" /\ b.id = ""}
ListBodies == {"empty", "malformed", "no_messages", "messages"}
\* A detail body: no content, content that is no JSON mapping, or a mapping
\* with top-level text and HTML fields and possibly a "message" key.  The
\* value under that key is something that is no mapping ("nondict"), a
\* mapping holding a text and an HTML of its own ("dict": inner,
\* inner_html), or a mapping holding nothing but a "message" key of its own
\* under which the mapping with inner and inner_html lies ("nested").
DetailBodies ==
    {b \in [kind : {"empty", "malformed", "json"},
            envelope : {"none", "dict", "nondict", "nested"},
            text : {"", "txt", "c1"}, html : {"", "c2"},
            inner : {"", "c1"}, inner_html : {"", "c2"}] :
        /\ (b.kind # "json" => b.envelope = "none" /\ b.text = "" /\ b.html = "")
        /\ (b.envelope \notin {"dict", "nested"} => b.inner = "" /\ b.inner_html = "")
        /\ (b.envelope \in {"dict", "nested"} => b.text # "txt" /\ b.html = "")}
\* A response whose body the code never reads carries the plain body.
PlainConfig == [json |-> TRUE, emailDomains |-> <<"">>]
PlainCreate == [json |-> TRUE, email |-> "", id |-> ""]
PlainDetail == [kind |-> "empty", envelope |-> "none", text |-> "", html |-> "",
                inner |-> "", inner_html |-> ""]

\* The create response register_account last received (NoRes: none yet).
NoRes == [exc |-> FALSE, status |-> 0, json |-> FALSE, email |-> "", id |-> ""]
ResOf(r, body) ==
    [exc |-> r.exc, status |-> r.status, json |-> body.json,
     email |-> body.email, id |-> body.id]
\* The config, list and detail responses the running call last received
\* (status 0 and no exception: none yet).
NoCfg == [exc |-> FALSE, status |-> 0, json |-> TRUE, emailDomains |-> <<"">>]
CfgOf(r, body) ==
    [exc |-> r.exc, status |-> r.status, json |-> body.json,
     emailDomains |-> body.emailDomains]
NoList == [exc |-> FALSE, status |-> 0, body |-> "empty"]
ListOf(r, body) == [exc |-> r.exc, status |-> r.status, body |-> body]
NoDetail == [exc |-> FALSE, status |-> 0, body |-> PlainDetail]
DetailOf(r, body) == [exc |-> r.exc, status |-> r.status, body |-> body]

\* The events of poll_for_code: a call of fetch_verification_code, a sleep.
Fetch == [ev |-> "fetch", secs |-> 0]
Sleep(n) == [ev |-> "sleep", secs |-> n]

(* ----------------------------------------------------------- requests *)
ConfigReq == [kind |-> "config", key |-> "", msg |-> 0]
CreateReq(d) == [kind |-> "create", key |-> d, msg |-> 0]
ListReq(id) == [kind |-> "list", key |-> id, msg |-> 0]
DetailReq(id, m) == [kind |-> "detail", key |-> id, msg |-> m]

(* ------------------------------------------------------- pure helpers *)
\* core.mail_utils.extract_verification_code on the concatenation of the
\* pieces: the first code in the text, or None.
RECURSIVE extract_verification_code(_)
extract_verification_code(pieces) ==
    IF pieces = <<>> THEN None
    ELSE IF Head(pieces) \in Codes THEN Head(pieces)
    ELSE extract_verification_code(Tail(pieces))

\* Python's floor division a // b for b # 0.
FloorDiv(a, b) == IF b > 0 THEN a \div b ELSE (-a) \div (-b)

\* Faulty variants of MaxRetries: at least one attempt; the quotient rounded up.
MaxRetriesAtLeastOne(t, iv) == IF FloorDiv(t, iv) < 1 THEN 1 ELSE FloorDiv(t, iv)
MaxRetriesCeil(t, iv) == -FloorDiv(-t, iv)
\* Line 280.
MaxRetries(t, iv) == FloorDiv(t, iv)

\* Faulty variant of SleepsBeforeNext: a sleep after the last attempt too.
SleepsAfterEvery(k, mx) == k <= mx
\* Line 287.
SleepsBeforeNext(k, mx) == k < mx

\* Line 174.
HasMailbox(id) == Truthy(id)

\* Faulty variant of MailboxKey: the mailbox is addressed by its address.
MailboxKeyByAddress == email
\* Lines 184 and 238: what the list and detail requests name the mailbox by.
MailboxKey == email_id

\* Lines 212-224: the entry is skipped when since_time is given, a timestamp
\* is present, it parses, and the comparison (which raises for a naive
\* against an aware datetime, an exception the code passes over) says earlier.
ParsesTs(ts) == ts.kind = "at"
ComparisonRaises(since) == since.aware
PredatesSince(ts, since) ==
    /\ since.given
    /\ ts.kind # "absent"
    /\ ParsesTs(ts)
    /\ ~ComparisonRaises(since)
    /\ ts.t < since.t

Strip(seg) == IF seg = " " THEN "" ELSE seg
NonEmpty(seg) == seg # ""
StrTruthy(str) == str # <<"">>
\* Line 95: [d.strip() for d in s.split(",") if d.strip()]
ParseDomains(str) == SelectSeq([k \in 1..Len(str) |-> Strip(str[k])], NonEmpty)

\* Lines 89-103: the cache after a config response.
DomainsAfterConfig(r, body) ==
    IF ~r.exc /\ r.status = 200 /\ body.json /\ StrTruthy(body.emailDomains)
    THEN ParseDomains(body.emailDomains)
    ELSE <<DefaultDomain>>

\* Lines 118-121: the domains random.choice may pick from.
DomainChoices(available) ==
    IF available # <<>> THEN Range(available) ELSE {DefaultDomain}

\* Faulty variants of CreateStatusOk: 201 is not taken for success; the
\* response is read whatever its status.
CreateStatusOk200Only(status) == status = 200
CreateStatusAny(status) == TRUE
\* Line 143.
CreateStatusOk(status) == status \in {200, 201}
CreateSucceeds(body) == Truthy(body.email) /\ Truthy(body.id)

\* Faulty variants of Unwrap: no envelope is unwrapped; whatever lies under
\* "message" is taken for the message; every level is unwrapped.
UnwrapNothing(body) == [text |-> body.text, html |-> body.html]
UnwrapAnyValue(body) ==
    IF body.envelope \in {"dict", "nondict"}
    THEN [text |-> body.inner, html |-> body.inner_html]
    ELSE IF body.envelope = "nested"
    THEN [text |-> "", html |-> ""]
    ELSE [text |-> body.text, html |-> body.html]
UnwrapEveryLevel(body) ==
    IF body.envelope \in {"dict", "nested"}
    THEN [text |-> body.inner, html |-> body.inner_html]
    ELSE [text |-> body.text, html |-> body.html]
\* Lines 247-259: one level of envelope is unwrapped when it is a mapping;
\* the text and the HTML of the detail are concatenated.
Unwrap(body) ==
    IF body.envelope = "dict"
    THEN [text |-> body.inner, html |-> body.inner_html]
    ELSE IF body.envelope = "nested"
    THEN [text |-> "", html |-> ""]
    ELSE [text |-> body.text, html |-> body.html]
DetailPieces(body) ==
    IF body.kind = "empty" THEN <<>>
    ELSE <<Unwrap(body).text, Unwrap(body).html>>

(* ---------------------------------------------------------------- Init *)
Init ==
    /\ email = None /\ email_id = None /\ password = None
    /\ available_domains = <<>>
    /\ domain \in ConfiguredDomains
    /\ log_callback \in Callbacks
    /\ pc = "idle" /\ op = "none" /\ ret = None
    /\ timeout = 0 /\ interval = 0 /\ since_time = NoSince
    /\ max_retries = 0 /\ i = 0
    /\ idx = 0 /\ msg = NoMsg /\ disp = "none" /\ disps = <<>> /\ code = None
    /\ reqs = <<>> /\ create_res = NoRes /\ trace = <<>> /\ clock = 0 /\ logcalls = {}
    /\ config_res = NoCfg /\ list_res = NoList /\ detail_res = NoDetail
    /\ domain_arg = None /\ looked_up = FALSE
    /\ provCalled = FALSE /\ provOk = FALSE

(* -------------------------------------------------- returning a value *)
\* Lines 294-299: _log hands the message to log_callback when there is one
\* and swallows what the callback raises, so it always returns to its
\* caller.  logs is the set of messages _log was called with.
_log(logs, message) == logs \cup {message}

\* What a call of the callback ends in.
CallbackOutcome(cb) == IF cb = "raises" THEN "Exception" ELSE "returns"
\* Line 298: except Exception.
ExceptCatches(e) == e = "Exception"
\* Faulty variant of LogRaises: _log calls the callback with no try/except.
LogRaisesUnguarded(cb) == cb # "none" /\ CallbackOutcome(cb) # "returns"
\* Lines 295-299: whether a call of _log raises: there is a callback, it
\* raises, and the handler of line 298 does not catch what it raises.
LogRaises(cb) ==
    /\ cb # "none"
    /\ CallbackOutcome(cb) # "returns"
    /\ ~ExceptCatches(CallbackOutcome(cb))
CallbackError == "raise:Exception"

\* The running public operation returns v (or raises, v \in Raised).
Return(v, logs) ==
    /\ pc' = "idle"
    /\ ret' = v
    /\ logcalls' = logs

\* Faulty variant of PollAfterFetch: a code found before the last attempt
\* does not end the loop.
PollAfterFetchKeepsPolling(k, mx, iv, v, logs) ==
    IF Truthy(v) /\ k >= mx THEN Return(v, logs)
    ELSE IF k < mx
         THEN IF iv < 0
              THEN Return(ValueError, _log(logs, "waiting"))
              ELSE /\ pc' = "sleeping"
                   /\ ret' = Pending
                   /\ logcalls' = _log(logs, "waiting")
         ELSE Return(None, _log(logs, "timeout"))

\* Lines 284-292: attempt k of poll_for_code got v from
\* fetch_verification_code.  time.sleep raises ValueError for a negative
\* length.
PollAfterFetch(k, mx, iv, v, logs) ==
    IF Truthy(v) THEN Return(v, logs)
    ELSE IF SleepsBeforeNext(k, mx)
         THEN IF iv < 0
              THEN Return(ValueError, _log(logs, "waiting"))
              ELSE /\ pc' = "sleeping"
                   /\ ret' = Pending
                   /\ logcalls' = _log(logs, "waiting")
         ELSE Return(None, _log(logs, "timeout"))

\* fetch_verification_code returns v, to its caller o.
FetchReturns(o, k, mx, iv, v, logs) ==
    /\ code' = v
    /\ IF o = "poll_for_code"
       THEN PollAfterFetch(k, mx, iv, v, logs)
       ELSE Return(v, logs)

\* Lines 174-185: fetch_verification_code starts; it issues the list request
\* unless there is no mailbox.
StartFetch(o, k, mx, iv, logs) ==
    /\ idx' = 0 /\ msg' = NoMsg /\ disp' = "none" /\ disps' = <<>>
    /\ list_res' = NoList /\ detail_res' = NoDetail
    /\ IF ~HasMailbox(email_id)
       THEN /\ reqs' = <<>>
            /\ FetchReturns(o, k, mx, iv, None, _log(logs, "no_email_id"))
       ELSE /\ reqs' = <<ListReq(MailboxKey)>>
            /\ pc' = "await_list"
            /\ ret' = Pending
            /\ code' = None
            /\ logcalls' = logs

(* ---------------------------------------------------- public operations *)
\* Faulty variant of set_credentials: the identifier is derived from the address
\* (what the comment of lines 49-51 warns against).
set_credentials_deriving_id(e, p) ==
    /\ pc = "idle"
    /\ op' = "set_credentials"
    /\ email' = e
    /\ email_id' = e
    /\ password' = p
    /\ Return(None, {})
    /\ code' = None /\ create_res' = NoRes
    /\ reqs' = <<>> /\ trace' = <<>> /\ clock' = 0
    /\ timeout' = 0 /\ interval' = 0 /\ max_retries' = 0 /\ i' = 0
    /\ since_time' = NoSince /\ idx' = 0 /\ msg' = NoMsg /\ disp' = "none"
    /\ disps' = <<>> /\ list_res' = NoList /\ detail_res' = NoDetail
    /\ config_res' = NoCfg /\ domain_arg' = None
    /\ UNCHANGED <<available_domains, domain, log_callback, ghost>>

\* Lines 45-48.
set_credentials(e, p) ==
    /\ pc = "idle"
    /\ op' = "set_credentials"
    /\ email' = e
    /\ password' = p
    /\ Return(None, {})
    /\ code' = None /\ create_res' = NoRes
    /\ reqs' = <<>> /\ trace' = <<>> /\ clock' = 0
    /\ timeout' = 0 /\ interval' = 0 /\ max_retries' = 0 /\ i' = 0
    /\ since_time' = NoSince /\ idx' = 0 /\ msg' = NoMsg /\ disp' = "none"
    /\ disps' = <<>> /\ list_res' = NoList /\ detail_res' = NoDetail
    /\ config_res' = NoCfg /\ domain_arg' = None
    /\ UNCHANGED <<email_id, available_domains, domain, log_callback, ghost>>

\* Lines 163-166.
login ==
    /\ pc = "idle"
    /\ op' = "login"
    /\ Return("True", {})
    /\ code' = None /\ create_res' = NoRes
    /\ reqs' = <<>> /\ trace' = <<>> /\ clock' = 0
    /\ timeout' = 0 /\ interval' = 0 /\ max_retries' = 0 /\ i' = 0
    /\ since_time' = NoSince /\ idx' = 0 /\ msg' = NoMsg /\ disp' = "none"
    /\ disps' = <<>> /\ list_res' = NoList /\ detail_res' = NoDetail
    /\ config_res' = NoCfg /\ domain_arg' = None
    /\ UNCHANGED <<client, ghost>>

\* Lines 111-141: register_account up to its first request: the config
\* request when neither the argument nor the client names a domain and the
\* cache is empty, else the create request.
register_account(d) ==
    /\ pc = "idle"
    /\ op' = "register_account"
    /\ provCalled' = TRUE
    /\ IF Truthy(d) THEN reqs' = <<CreateReq(d)>> /\ pc' = "await_create"
       ELSE IF Truthy(domain) THEN reqs' = <<CreateReq(domain)>> /\ pc' = "await_create"
       ELSE IF available_domains # <<>>
            THEN \E sel \in DomainChoices(available_domains) :
                    reqs' = <<CreateReq(sel)>> /\ pc' = "await_create"
            ELSE reqs' = <<ConfigReq>> /\ pc' = "await_config"
    /\ ret' = Pending /\ logcalls' = {}
    /\ code' = None /\ create_res' = NoRes
    /\ trace' = <<>> /\ clock' = 0
    /\ timeout' = 0 /\ interval' = 0 /\ max_retries' = 0 /\ i' = 0
    /\ since_time' = NoSince /\ idx' = 0 /\ msg' = NoMsg /\ disp' = "none"
    /\ disps' = <<>> /\ list_res' = NoList /\ detail_res' = NoDetail
    /\ config_res' = NoCfg /\ domain_arg' = d
    /\ UNCHANGED <<client, provOk, looked_up>>

\* Faulty variant of ConfigResponse: a transport exception of the config
\* request is not caught at line 98 but by the handler of line 159.
ConfigResponsePropagating(r, body, dur) ==
    /\ pc = "await_config"
    /\ config_res' = CfgOf(r, body)
    /\ looked_up' = TRUE
    /\ IF r.exc
       THEN /\ Return("False", _log(logcalls, "register_failed"))
            /\ UNCHANGED <<available_domains, reqs>>
       ELSE /\ available_domains' = DomainsAfterConfig(r, body)
            /\ \E sel \in DomainChoices(available_domains') :
                  reqs' = Append(reqs, CreateReq(sel))
            /\ pc' = "await_create"
            /\ UNCHANGED <<ret, logcalls>>
    /\ clock' = clock + dur
    /\ UNCHANGED <<email, email_id, password, domain, log_callback, op,
                   code, create_res, pollvars, fetchvars,
                   provCalled, provOk, domain_arg, respvars>>

\* Lines 89-103 and 118-141: the config request ends; the cache is set, a
\* domain is picked and the create request is issued.
ConfigResponse(r, body, dur) ==
    /\ pc = "await_config"
    /\ config_res' = CfgOf(r, body)
    /\ looked_up' = TRUE
    /\ available_domains' = DomainsAfterConfig(r, body)
    /\ \E sel \in DomainChoices(available_domains') :
          reqs' = Append(reqs, CreateReq(sel))
    /\ pc' = "await_create"
    /\ clock' = clock + dur
    /\ UNCHANGED <<email, email_id, password, domain, log_callback, op, ret,
                   code, create_res, pollvars, fetchvars, logcalls,
                   provCalled, provOk, domain_arg, respvars>>

\* Lines 143-161: the create request ends.
CreateResponse(r, body, dur) ==
    /\ pc = "await_create"
    /\ clock' = clock + dur
    /\ create_res' = ResOf(r, body)
    /\ IF r.exc \/ (CreateStatusOk(r.status) /\ ~body.json)
       THEN \* line 159: the exception is caught
            /\ Return("False", _log(logcalls, "register_failed"))
            /\ UNCHANGED <<email, email_id, password, provOk>>
       ELSE IF CreateStatusOk(r.status)
       THEN /\ email' = body.email
            /\ email_id' = body.id
            /\ password' = body.id
            /\ IF CreateSucceeds(body)
               THEN Return("True", _log(logcalls, "register_success")) /\ provOk' = TRUE
               ELSE Return("False", _log(logcalls, "register_failed")) /\ UNCHANGED provOk
       ELSE /\ Return("False", _log(logcalls, "register_failed"))
            /\ UNCHANGED <<email, email_id, password, provOk>>
    /\ UNCHANGED <<available_domains, domain, log_callback, op, code, pollvars,
                   fetchvars, reqs, provCalled, looked_up, regvars, respvars>>

\* Lines 168-185: fetch_verification_code called by the user.
fetch_verification_code(since) ==
    /\ pc = "idle"
    /\ op' = "fetch_verification_code"
    /\ since_time' = since
    /\ StartFetch("fetch_verification_code", 0, 0, 0, {})
    /\ create_res' = NoRes /\ config_res' = NoCfg /\ domain_arg' = None
    /\ trace' = <<>> /\ clock' = 0
    /\ timeout' = 0 /\ interval' = 0 /\ max_retries' = 0 /\ i' = 0
    /\ UNCHANGED <<client, ghost>>

\* Lines 280-283: poll_for_code up to the first request of its first attempt.
poll_for_code(t, iv, since) ==
    /\ pc = "idle"
    /\ op' = "poll_for_code"
    /\ timeout' = t /\ interval' = iv /\ since_time' = since
    /\ clock' = 0 /\ create_res' = NoRes
    /\ config_res' = NoCfg /\ domain_arg' = None
    /\ IF iv = 0
       THEN \* line 280 raises
            /\ Return(ZeroDivisionError, {})
            /\ max_retries' = 0 /\ i' = 0 /\ trace' = <<>> /\ reqs' = <<>>
            /\ idx' = 0 /\ msg' = NoMsg /\ disp' = "none" /\ code' = None
            /\ disps' = <<>> /\ list_res' = NoList /\ detail_res' = NoDetail
       ELSE /\ max_retries' = MaxRetries(t, iv)
            /\ IF max_retries' < 1
               THEN \* range(1, max_retries + 1) is empty
                    /\ Return(None, _log({}, "timeout"))
                    /\ i' = 0 /\ trace' = <<>> /\ reqs' = <<>>
                    /\ idx' = 0 /\ msg' = NoMsg /\ disp' = "none" /\ code' = None
                    /\ disps' = <<>> /\ list_res' = NoList /\ detail_res' = NoDetail
               ELSE /\ i' = 1
                    /\ trace' = <<Fetch>>
                    /\ StartFetch("poll_for_code", 1, max_retries', iv, {})
    /\ UNCHANGED <<client, ghost>>

\* Line 289 returns: the next attempt starts.
SleepDone ==
    /\ pc = "sleeping"
    /\ clock' = clock + interval
    /\ i' = i + 1
    /\ trace' = trace \o <<Sleep(interval), Fetch>>
    /\ StartFetch(op, i + 1, max_retries, interval, logcalls)
    /\ UNCHANGED <<client, op, timeout, interval, max_retries, since_time,
                   create_res, ghost, regvars>>

(* ------------------------------------------- fetch_verification_code *)
\* Lines 187-203: the list request ends.  A transport exception, and a body
\* that is no JSON mapping, end the call through the handler of line 269.
ListResponse(r, body, dur) ==
    /\ pc = "await_list"
    /\ clock' = clock + dur
    /\ list_res' = ListOf(r, body)
    /\ IF r.exc \/ r.status # 200 \/ body # "messages"
       THEN FetchReturns(op, i, max_retries, interval, None, logcalls)
       ELSE pc' = "iter" /\ UNCHANGED <<ret, code, logcalls>>
    /\ UNCHANGED <<client, op, pollvars, fetchvars, reqs, create_res, ghost,
                   regvars, detail_res>>

\* Faulty variant of NextMessage: the detail request is issued before the
\* inline content is looked at.
NextMessageDetailFirst(shape) ==
    /\ pc = "iter"
    /\ idx < MaxMsgs
    /\ idx' = idx + 1
    /\ msg' = [id |-> IF shape.hasId THEN idx + 1 ELSE 0,
               ts |-> shape.ts, content |-> shape.content]
    /\ IF msg'.id = 0
       THEN disp' = "noid" /\ UNCHANGED <<pc, ret, code, logcalls, reqs>>
       ELSE IF PredatesSince(msg'.ts, since_time)
       THEN disp' = "filtered" /\ UNCHANGED <<pc, ret, code, logcalls, reqs>>
       ELSE IF Truthy(extract_verification_code(<<msg'.content>>))
       THEN /\ disp' = "inline"
            /\ FetchReturns(op, i, max_retries, interval,
                            extract_verification_code(<<msg'.content>>), logcalls)
            /\ reqs' = Append(reqs, DetailReq(MailboxKey, msg'.id))
       ELSE /\ disp' = "detail"
            /\ reqs' = Append(reqs, DetailReq(MailboxKey, msg'.id))
            /\ pc' = "await_detail"
            /\ UNCHANGED <<ret, code, logcalls>>
    /\ disps' = Append(disps, disp')
    /\ UNCHANGED <<client, op, pollvars, since_time, clock, create_res, ghost,
                   regvars, respvars>>

\* Lines 206-239: the loop takes the next entry of the list: it passes over
\* an entry with no id and an entry the since filter excludes, returns the
\* code of the inline content, and else issues the detail request.
NextMessage(shape) ==
    /\ pc = "iter"
    /\ idx < MaxMsgs
    /\ idx' = idx + 1
    /\ msg' = [id |-> IF shape.hasId THEN idx + 1 ELSE 0,
               ts |-> shape.ts, content |-> shape.content]
    /\ IF msg'.id = 0
       THEN disp' = "noid" /\ UNCHANGED <<pc, ret, code, logcalls, reqs>>
       ELSE IF PredatesSince(msg'.ts, since_time)
       THEN disp' = "filtered" /\ UNCHANGED <<pc, ret, code, logcalls, reqs>>
       ELSE IF Truthy(extract_verification_code(<<msg'.content>>))
       THEN /\ disp' = "inline"
            /\ FetchReturns(op, i, max_retries, interval,
                            extract_verification_code(<<msg'.content>>), logcalls)
            /\ UNCHANGED reqs
       ELSE /\ disp' = "detail"
            /\ reqs' = Append(reqs, DetailReq(MailboxKey, msg'.id))
            /\ pc' = "await_detail"
            /\ UNCHANGED <<ret, code, logcalls>>
    /\ disps' = Append(disps, disp')
    /\ UNCHANGED <<client, op, pollvars, since_time, clock, create_res, ghost,
                   regvars, respvars>>

\* Line 267: the list is exhausted (it has at least one entry, line 199).
EndOfList ==
    /\ pc = "iter"
    /\ idx >= 1
    /\ disps' = Append(disps, "end")
    /\ FetchReturns(op, i, max_retries, interval, None, logcalls)
    /\ UNCHANGED <<client, op, pollvars, since_time, idx, msg, disp, history, ghost,
                   regvars, respvars>>

\* Faulty variant of DetailResponse: a status other than 200 ends the call
\* (return None in place of continue at line 242).
DetailResponseAbortsOnStatus(r, body, dur) ==
    /\ pc = "await_detail"
    /\ clock' = clock + dur
    /\ detail_res' = DetailOf(r, body)
    /\ IF r.exc
       THEN FetchReturns(op, i, max_retries, interval, None, logcalls)
       ELSE IF r.status # 200
       THEN FetchReturns(op, i, max_retries, interval, None, logcalls)
       ELSE IF body.kind = "malformed"
       THEN FetchReturns(op, i, max_retries, interval, None, logcalls)
       ELSE IF Truthy(extract_verification_code(DetailPieces(body)))
       THEN FetchReturns(op, i, max_retries, interval,
                         extract_verification_code(DetailPieces(body)), logcalls)
       ELSE pc' = "iter" /\ UNCHANGED <<ret, code, logcalls>>
    /\ UNCHANGED <<client, op, pollvars, fetchvars, reqs, create_res, ghost,
                   regvars, list_res>>

\* Faulty variant of DetailResponse: a transport exception of the detail
\* request is caught inside the loop and the loop goes on.
DetailResponseSkipsOnException(r, body, dur) ==
    /\ pc = "await_detail"
    /\ clock' = clock + dur
    /\ detail_res' = DetailOf(r, body)
    /\ IF r.exc
       THEN pc' = "iter" /\ UNCHANGED <<ret, code, logcalls>>
       ELSE IF r.status # 200
       THEN pc' = "iter" /\ UNCHANGED <<ret, code, logcalls>>
       ELSE IF body.kind = "malformed"
       THEN FetchReturns(op, i, max_retries, interval, None, logcalls)
       ELSE IF Truthy(extract_verification_code(DetailPieces(body)))
       THEN FetchReturns(op, i, max_retries, interval,
                         extract_verification_code(DetailPieces(body)), logcalls)
       ELSE pc' = "iter" /\ UNCHANGED <<ret, code, logcalls>>
    /\ UNCHANGED <<client, op, pollvars, fetchvars, reqs, create_res, ghost,
                   regvars, list_res>>

\* Lines 241-265 and 269-271: the detail request ends.
DetailResponse(r, body, dur) ==
    /\ pc = "await_detail"
    /\ clock' = clock + dur
    /\ detail_res' = DetailOf(r, body)
    /\ IF r.exc
       THEN FetchReturns(op, i, max_retries, interval, None, logcalls)
       ELSE IF r.status # 200
       THEN pc' = "iter" /\ UNCHANGED <<ret, code, logcalls>>
       ELSE IF body.kind = "malformed"
       THEN FetchReturns(op, i, max_retries, interval, None, logcalls)
       ELSE IF Truthy(extract_verification_code(DetailPieces(body)))
       THEN FetchReturns(op, i, max_retries, interval,
                         extract_verification_code(DetailPieces(body)), logcalls)
       ELSE pc' = "iter" /\ UNCHANGED <<ret, code, logcalls>>
    /\ UNCHANGED <<client, op, pollvars, fetchvars, reqs, create_res, ghost,
                   regvars, list_res>>

(* ---------------------------------------------------------------- Next *)
ConfigBodiesOf(r) == IF ~r.exc /\ r.status = 200 THEN ConfigBodies ELSE {PlainConfig}
CreateBodiesOf(r) == IF ~r.exc THEN CreateBodies ELSE {PlainCreate}
ListBodiesOf(r) == IF ~r.exc /\ r.status = 200 THEN ListBodies ELSE {"empty"}
DetailBodiesOf(r, bodies) == IF ~r.exc /\ r.status = 200 THEN bodies ELSE {PlainDetail}

\* The steps of fetch_verification_code after its list request.
FetchSteps(shapes, durs, bodies) ==
    \/ \E r \in Outcomes, dur \in durs : \E body \in ListBodiesOf(r) :
          ListResponse(r, body, dur)
    \/ \E shape \in shapes : NextMessage(shape)
    \/ EndOfList
    \/ \E r \in Outcomes, dur \in durs : \E body \in DetailBodiesOf(r, bodies) :
          DetailResponse(r, body, dur)

\* Entries that carry no timestamp.
PlainShapes == {sh \in Shapes : sh.ts = NoTs}
\* Detail bodies with no "message" key and no HTML.
PlainDetails == {b \in DetailBodies : b.envelope = "none" /\ b.html = "" /\ b.text # "txt"}

\* Spec: every operation of the client, from a fresh client; requests take
\* no time, list entries carry no timestamp and poll_for_code passes no
\* since_time.
Next ==
    \/ \E e \in UserAddresses : set_credentials(e, "")
    \/ login
    \/ \E d \in DomainArgs : register_account(d)
    \/ \E r \in Outcomes : \E body \in ConfigBodiesOf(r) : ConfigResponse(r, body, 0)
    \/ \E r \in Outcomes : \E body \in CreateBodiesOf(r) : CreateResponse(r, body, 0)
    \/ \E since \in Sinces : fetch_verification_code(since)
    \/ \E t \in Timeouts, iv \in Intervals : poll_for_code(t, iv, NoSince)
    \/ SleepDone
    \/ FetchSteps(PlainShapes, {0}, PlainDetails)

Spec == Init /\ [][Next]_vars

\* A client with no mailbox, or with the mailbox a successful
\* register_account stored.
InitMailbox ==
    /\ \/ email = None /\ email_id = None /\ password = None
          /\ provCalled = FALSE /\ provOk = FALSE
       \/ email \in Addresses /\ email_id \in {"id1"} /\ password = email_id
          /\ provCalled = TRUE /\ provOk = TRUE
    /\ available_domains = <<>>
    /\ domain = ""
    /\ log_callback \in Callbacks
    /\ pc = "idle" /\ op = "none" /\ ret = None
    /\ timeout = 0 /\ interval = 0 /\ since_time = NoSince
    /\ max_retries = 0 /\ i = 0
    /\ idx = 0 /\ msg = NoMsg /\ disp = "none" /\ disps = <<>> /\ code = None
    /\ reqs = <<>> /\ create_res = NoRes /\ trace = <<>> /\ clock = 0 /\ logcalls = {}
    /\ config_res = NoCfg /\ list_res = NoList /\ detail_res = NoDetail
    /\ domain_arg = None /\ looked_up = FALSE

\* SpecFetch: fetch_verification_code, with every shape of list entry.
NextFetch ==
    \/ \E since \in Sinces : fetch_verification_code(since)
    \/ FetchSteps(Shapes, {0}, DetailBodies)

SpecFetch == InitMailbox /\ [][NextFetch]_vars

\* SpecPoll: poll_for_code, with every timeout and interval and with
\* requests that take time.
NextPoll ==
    \/ \E t \in Timeouts, iv \in Intervals : poll_for_code(t, iv, NoSince)
    \/ SleepDone
    \/ FetchSteps(PlainShapes, Durations, PlainDetails)

SpecPoll == InitMailbox /\ [][NextPoll]_vars

\* An exception raised by _log is caught by no handler that does not log
\* again (lines 81, 99, 160, 270 log in the handler), so it ends the running
\* operation o.
LogAborts(o) ==
    /\ pc' = "idle" /\ op' = o /\ ret' = CallbackError
    /\ UNCHANGED <<client, code, pollvars, fetchvars, history, logcalls, ghost,
                   regvars, respvars>>

\* A step A of operation o, enabled at the positions at, that calls _log
\* before it does anything else, on a client whose callback is cb.
Logging(cb, o, at, A) == IF pc \in at /\ LogRaises(cb) THEN LogAborts(o) ELSE A

\* The steps of the client with callback cb; the calls of _log are at
\* lines 123 (register_account), 61, 73 and 81 (each request and each
\* response), 175 and 179 (fetch_verification_code), 229 (an entry examined)
\* and 288, 291 (poll_for_code after an attempt).  set_credentials and
\* login do not log, nor does line 280 of poll_for_code.
NextLogAs(cb) ==
    \/ \E e \in UserAddresses : set_credentials(e, "")
    \/ login
    \/ \E d \in DomainArgs :
          Logging(cb, "register_account", {"idle"}, register_account(d))
    \/ \E r \in Outcomes : \E body \in ConfigBodiesOf(r) :
          Logging(cb, op, {"await_config"}, ConfigResponse(r, body, 0))
    \/ \E r \in Outcomes : \E body \in CreateBodiesOf(r) :
          Logging(cb, op, {"await_create"}, CreateResponse(r, body, 0))
    \/ Logging(cb, "fetch_verification_code", {"idle"}, fetch_verification_code(NoSince))
    \/ \E t \in {0, 2}, iv \in 0..1 :
          IF iv = 0 THEN poll_for_code(t, iv, NoSince)
          ELSE Logging(cb, "poll_for_code", {"idle"}, poll_for_code(t, iv, NoSince))
    \/ Logging(cb, op, {"sleeping"}, SleepDone)
    \/ \E r \in Outcomes : \E body \in ListBodiesOf(r) :
          Logging(cb, op, {"await_list"}, ListResponse(r, body, 0))
    \/ \E shape \in PlainShapes :
          IF shape.hasId /\ idx < MaxMsgs
          THEN Logging(cb, op, {"iter"}, NextMessage(shape))
          ELSE NextMessage(shape)
    \/ IF op = "poll_for_code" /\ idx >= 1
       THEN Logging(cb, op, {"iter"}, EndOfList)
       ELSE EndOfList
    \/ \E r \in Outcomes : \E body \in DetailBodiesOf(r, PlainDetails) :
          Logging(cb, op, {"await_detail"}, DetailResponse(r, body, 0))

\* SpecLog: every operation of a client whose log_callback is the one it
\* was constructed with; poll_for_code makes no, one or two attempts.
NextLog == NextLogAs(log_callback)

SpecLog == Init /\ [][NextLog]_vars

(* ============================================================ properties *)
\* The events of n attempts with a sleep of iv between two of them.
RECURSIVE AltTrace(_, _)
AltTrace(n, iv) ==
    IF n <= 0 THEN <<>>
    ELSE IF n = 1 THEN <<Fetch>>
    ELSE AltTrace(n - 1, iv) \o <<Sleep(iv), Fetch>>

RECURSIVE SumSecs(_)
SumSecs(tr) == IF tr = <<>> THEN 0 ELSE Head(tr).secs + SumSecs(Tail(tr))

Max(a, b) == IF a >= b THEN a ELSE b

PollReturned == pc = "idle" /\ op = "poll_for_code"
FetchReturned == pc = "idle" /\ op = "fetch_verification_code"
RegisterReturned == pc = "idle" /\ op = "register_account"

\* C1: no public operation ends by raising: register_account,
\* fetch_verification_code and poll_for_code return a value for every
\* argument and every behaviour of the provider.
C1_NeverRaises == ret \notin Raised

\* C2: for timeout >= 0 and interval >= 1, a poll_for_code in which no fetch
\* yields a code makes exactly timeout div interval fetches, with one sleep
\* of interval between two fetches and none after the last, logs the
\* timeout and returns None.
C2_ExhaustedPoll ==
    (PollReturned /\ timeout >= 0 /\ interval >= 1 /\ code \notin Codes) =>
        /\ ret = None
        /\ trace = AltTrace(timeout \div interval, interval)
        /\ "timeout" \in logcalls

C2_Witness ==
    /\ PollReturned /\ ret = None /\ timeout = 3 /\ interval = 1
    /\ HasMailbox(email_id)
    /\ trace = <<Fetch, Sleep(1), Fetch, Sleep(1), Fetch>>

\* C3: when the fetch of attempt i yields a code, poll_for_code returns that
\* code in the same step, after i fetches and i - 1 sleeps, and logs no
\* timeout.
C3_FirstCodeReturned ==
    (op = "poll_for_code" /\ code \in Codes) =>
        /\ pc = "idle"
        /\ ret = code
        /\ i >= 1 /\ i <= max_retries
        /\ trace = AltTrace(i, interval)
        /\ "timeout" \notin logcalls

C3_Witness ==
    /\ PollReturned /\ ret \in Codes /\ i = 2 /\ max_retries = 3
    /\ Len(trace) = 3

\* C4: with 0 <= timeout < interval, poll_for_code makes no fetch, no sleep
\* and no request and returns None, also on a client that has a mailbox.
C4_ZeroAttempts ==
    (op = "poll_for_code" /\ timeout >= 0 /\ interval > timeout) =>
        /\ pc = "idle"
        /\ ret = None
        /\ trace = <<>>
        /\ reqs = <<>>
        /\ clock = 0

C4_Witness ==
    /\ PollReturned /\ timeout = 1 /\ interval = 2 /\ HasMailbox(email_id)
    /\ ret = None /\ reqs = <<>>

\* C5 as claimed: when poll_for_code returns None (here on a client that
\* has a mailbox, with timeout >= 0 and interval >= 1), at least timeout
\* seconds have passed since the call.
C5_DeadlineElapsed ==
    (PollReturned /\ ret = None /\ HasMailbox(email_id) /\ timeout >= 0 /\ interval >= 1)
        => clock >= timeout

\* C5, amended: when poll_for_code returns None it has slept exactly
\* interval * max(0, timeout // interval - 1) seconds, and the time passed
\* is that plus the time its requests took.
C5_SleptBetweenAttempts ==
    (PollReturned /\ ret = None) =>
        /\ SumSecs(trace) = interval * Max(0, FloorDiv(timeout, interval) - 1)
        /\ clock >= SumSecs(trace)

C5_Witness ==
    /\ PollReturned /\ ret = None /\ timeout = 3 /\ interval = 2
    /\ HasMailbox(email_id) /\ Len(reqs) >= 1
    /\ clock < timeout

\* C6: as long as register_account has not been called, every
\* fetch_verification_code (called directly or by poll_for_code) returns
\* None and issues no request, whatever since_time it is given.
C6_NoRequestBeforeRegister ==
    ~provCalled =>
        /\ reqs = <<>>
        /\ code = None
        /\ op = "fetch_verification_code" => pc = "idle" /\ ret = None

C6_Witness ==
    /\ ~provCalled /\ FetchReturned /\ since_time.given
    /\ email \in UserAddresses

\* C7: as long as no register_account call has returned True,
\* fetch_verification_code returns None and issues no request.
C7_NoRequestBeforeSuccess ==
    (~provOk /\ op = "fetch_verification_code") =>
        /\ pc = "idle"
        /\ ret = None
        /\ reqs = <<>>

\* C8: register_account returns True exactly when the create response has
\* status 200 or 201 and carries a non-empty address and a non-empty
\* identifier, and then the client stores these two values; in every other
\* case it returns False.
C8_RegisterResult ==
    RegisterReturned =>
        LET ok == /\ ~create_res.exc
                  /\ create_res.status \in {200, 201}
                  /\ create_res.email # ""
                  /\ create_res.id # ""
        IN /\ ret \in {"True", "False"}
           /\ (ret = "True") <=> ok
           /\ ok => email = create_res.email /\ email_id = create_res.id

C8_Witness ==
    /\ RegisterReturned /\ ret = "True" /\ create_res.status = 201
    /\ email = create_res.email /\ email_id = "id2"

C10_SinceFilter ==
    (op = "fetch_verification_code" /\ since_time.given /\ msg.id # 0) =>
        IF msg.ts.kind = "at" /\ msg.ts.t < since_time.t
        THEN /\ disp = "filtered"
             /\ code = None
             /\ \A k \in 1..Len(reqs) : reqs[k].msg # msg.id
        ELSE disp \in {"inline", "detail"}

\* The detail requests for the entries of positions k..n that went to the
\* detail request: those with an id that the since filter let through and
\* whose inline content gave no code.
RECURSIVE DetailsFor(_, _, _)
DetailsFor(id, k, n) ==
    IF k > n THEN <<>>
    ELSE IF disps[k] = "detail" THEN <<DetailReq(id, k)>> \o DetailsFor(id, k + 1, n)
    ELSE DetailsFor(id, k + 1, n)

\* C11: when the inline content of a list entry yields a code,
\* fetch_verification_code returns that code and issues no detail request
\* for that entry or a later one: the requests of the call are the list
\* request and one detail request for each entry examined before.
C11_InlineCodeNoDetail ==
    (op = "fetch_verification_code" /\ disp = "inline") =>
        /\ FetchReturned
        /\ msg.content \in Codes /\ ret = msg.content
        /\ reqs = <<ListReq(email_id)>> \o DetailsFor(email_id, 1, idx - 1)

C11_Witness ==
    /\ FetchReturned /\ disp = "inline" /\ idx = 2
    /\ disps[1] = "detail" /\ Len(reqs) = 2 /\ ret \in Codes

\* A request of the running attempt ended in a transport exception.
AttemptRaised == list_res.exc \/ detail_res.exc

\* C12: a transport exception raised by the list or a detail request during
\* attempt i of poll_for_code makes that attempt end with no code and does
\* not end the poll: when i < max_retries the poll sleeps and goes on to
\* attempt i + 1, and after the last attempt it returns None.
C12_ExceptionOnlyFailsAttempt ==
    (op = "poll_for_code" /\ AttemptRaised) =>
        /\ code = None
        /\ ret \notin Raised
        /\ IF i < max_retries THEN pc = "sleeping" ELSE pc = "idle" /\ ret = None

\* The same for the intervals time.sleep accepts.
C12_WithSleepableInterval == interval >= 0 => C12_ExceptionOnlyFailsAttempt

\* A later attempt returns a code after a transport exception in an earlier one.
C12_LaterCodeReached ==
    /\ PollReturned /\ ret \in Codes /\ i = 2
    /\ \E k \in 1..Len(trace) : trace[k].ev = "sleep"

\* The config request of the running register_account ended without a
\* usable domain list: a transport exception, a status other than 200, a
\* body that is no JSON mapping, or a domain list that is missing, empty or
\* names no domain.
ConfigFailed ==
    \/ config_res.exc
    \/ config_res.status \notin {0, 200}
    \/ /\ config_res.status = 200
       /\ \/ ~config_res.json
          \/ \A k \in 1..Len(config_res.emailDomains) :
                config_res.emailDomains[k] \in {"", " "}

\* The create response reports success and carries an address and an id.
CreateOk ==
    /\ ~create_res.exc /\ create_res.status \in {200, 201} /\ create_res.json
    /\ create_res.email # "" /\ create_res.id # ""

\* C13: register_account with no domain argument, on a client with no
\* configured domain, whose config request fails in any way, still issues
\* the create request, for the hardcoded default domain, and returns True
\* exactly when the create response is a success carrying address and id.
C13_DefaultDomainOnFailure ==
    (op = "register_account" /\ ~Truthy(domain_arg) /\ ~Truthy(domain) /\ ConfigFailed) =>
        /\ reqs = <<ConfigReq, CreateReq("moemail.app")>>
        /\ pc \in {"await_create", "idle"}
        /\ pc = "idle" => /\ ret \in {"True", "False"}
                          /\ ret = "True" <=> CreateOk

C13_Witness ==
    /\ RegisterReturned /\ ~Truthy(domain_arg) /\ ~Truthy(domain)
    /\ config_res.exc /\ ret = "True" /\ reqs[2] = CreateReq("moemail.app")

\* C14: every list request and every detail request names the mailbox by
\* the email_id stored when it is issued, never by the address, and
\* set_credentials, which replaces the address, leaves email_id as it is.
C14_AddressedByIdentifier ==
    [][ /\ \A k \in 1..Len(reqs') :
              (reqs'[k].kind \in {"list", "detail"} /\ (k > Len(reqs) \/ reqs[k] # reqs'[k]))
                 => /\ reqs'[k].key = email_id
                    /\ reqs'[k].key # email
                    /\ reqs'[k].key \notin Addresses \cup UserAddresses
        /\ op' = "set_credentials" /\ pc = "idle" /\ pc' = "idle"
              => email_id' = email_id
      ]_vars

C14_Witness ==
    /\ op = "fetch_verification_code" /\ email \in UserAddresses
    /\ email_id \in Identifiers /\ Len(reqs) = 2
    /\ reqs[1] = ListReq(email_id) /\ reqs[2] = DetailReq(email_id, 1)

\* C15: logging cannot change behaviour: every step a client takes,
\* whatever its callback (none, or one that raises on every call), is the
\* step the client with no callback takes from the same state on the same
\* response of the provider; so the returns, the requests and the mailbox
\* of the two clients are the same after every operation.
C15_LoggingChangesNothing == [][NextLogAs("none")]_vars

C15_Witness ==
    /\ log_callback = "raises" /\ RegisterReturned /\ ret = "True"
    /\ Len(reqs) = 2 /\ HasMailbox(email_id) /\ logcalls # {}

\* What the entry the loop took last gives: nothing when it has no id or
\* the since filter excludes it, else the code of its inline content, else
\* the code of the text and HTML of its detail (one envelope removed) when
\* the detail response has status 200 and a readable body.
DetailReadable ==
    /\ ~detail_res.exc /\ detail_res.status = 200
    /\ detail_res.body.kind # "malformed"
DetailUnreadable ==
    /\ ~detail_res.exc /\ detail_res.status = 200
    /\ detail_res.body.kind = "malformed"
EntryYield ==
    IF msg.id = 0 \/ PredatesSince(msg.ts, since_time) THEN None
    ELSE IF msg.content \in Codes THEN msg.content
    ELSE IF DetailReadable THEN extract_verification_code(DetailPieces(detail_res.body))
    ELSE None
\* The list response gave no list of messages to examine.
NoMessages == list_res.status # 200 \/ list_res.body # "messages"
\* Every entry of the list was examined.
Exhausted == disps # <<>> /\ disps[Len(disps)] = "end"

\* The call examines the entries in the order of the list and goes past an
\* entry only when it gives no code: so the code it returns is that of the
\* earliest entry that gives one.
InOrder ==
    /\ msg.id \in {0, idx}
    /\ (pc = "iter" /\ idx >= 1) => (EntryYield = None /\ code = None)
    /\ (pc = "idle" /\ ret \in Codes) => (idx >= 1 /\ EntryYield = ret)

\* C16: fetch_verification_code examines the entries in the order of the
\* list and returns the code of the earliest entry that has an id, passes
\* the since filter and gives a code, inline or else in its detail; when no
\* request raises a transport exception it returns None only when there is
\* no such entry: the list is unusable or every entry was examined.
C16_EarliestCode ==
    (op = "fetch_verification_code" /\ HasMailbox(email_id) /\ ~AttemptRaised) =>
        /\ InOrder
        /\ (pc = "idle" /\ ret \notin Codes) =>
              (ret = None /\ (NoMessages \/ (Exhausted /\ EntryYield = None)))

\* C16 as amended: the same, except that a detail response of status 200
\* whose body is no JSON mapping ends the call with None at once.
C16_EarliestCodeOrUnreadable ==
    (op = "fetch_verification_code" /\ HasMailbox(email_id) /\ ~AttemptRaised) =>
        /\ InOrder
        /\ (pc = "idle" /\ ret \notin Codes) =>
              /\ ret = None
              /\ \/ NoMessages
                 \/ Exhausted /\ EntryYield = None /\ ~(disp = "detail" /\ DetailUnreadable)
                 \/ disp = "detail" /\ DetailUnreadable /\ ~Exhausted
        /\ (pc \in {"iter", "idle"} /\ disp = "detail" /\ DetailUnreadable) =>
              (pc = "idle" /\ ret = None /\ ~Exhausted)

C16_Witness ==
    /\ FetchReturned /\ ~AttemptRaised /\ idx = 2 /\ disps[1] = "detail"
    /\ disp = "detail" /\ ret \in Codes /\ msg.content = "txt"
    /\ since_time.given /\ msg.ts.kind = "at"

\* The detail request for the entry the loop took last did not succeed.
DetailAnswered == disp = "detail" /\ pc \in {"iter", "idle"}
DetailStatusFailed == ~detail_res.exc /\ detail_res.status \notin {0, 200}
\* After that entry the loop went on to the rest of the list.
WentOn == pc = "iter" \/ Exhausted

\* C17: when the detail request for an entry does not succeed, by a status
\* other than success or by a transport exception, the call passes over
\* that entry only and goes on with the rest of the list.
C17_FailedDetailSkipped ==
    (op = "fetch_verification_code" /\ DetailAnswered
        /\ (detail_res.exc \/ DetailStatusFailed)) =>
            (code = None /\ WentOn)

\* C17 as amended: a status other than 200 makes the call pass over that
\* entry only; a transport exception ends the call with None, the rest of
\* the list unexamined.
C17_StatusSkipsExceptionEnds ==
    (op = "fetch_verification_code" /\ DetailAnswered) =>
        /\ DetailStatusFailed => (code = None /\ WentOn)
        /\ detail_res.exc => (pc = "idle" /\ ret = None /\ ~Exhausted)

\* A later entry's code is returned after the detail request of the first
\* entry ended in status 404.
C17_Witness ==
    /\ FetchReturned /\ ret \in Codes /\ idx = 2 /\ msg.id = 2
    /\ disps[1] = "detail" /\ disp = "inline" /\ detail_res.status = 404

\* C18: the config endpoint is requested at most once on a client: once the
\* first domain lookup has ended, the cache is non-empty, no step changes it
\* and no step issues the config request.
C18_SingleLookup ==
    [][ looked_up =>
          /\ available_domains # <<>>
          /\ available_domains' = available_domains
          /\ pc' # "await_config"
      ]_vars

\* A second config request on a client whose first lookup has ended.
C18_SecondLookupReached ==
    /\ looked_up /\ pc = "await_config" /\ available_domains = <<>>
    /\ reqs = <<ConfigReq>>

\* The domain the create request of the running register_account carries.
HasCreateReq == reqs # <<>> /\ reqs[Len(reqs)].kind = "create"
SentDomain == reqs[Len(reqs)].key
ConfigRequested == \E k \in 1..Len(reqs) : reqs[k].kind = "config"

\* C19: register_account picks the domain by strict priority: a non-empty
\* argument is sent; else a non-empty configured domain is sent; else the
\* sent domain is a member of the available-domain cache.  The config
\* endpoint is not requested when an argument or a configured domain is
\* present.
C19_DomainPriority ==
    op = "register_account" =>
        /\ HasCreateReq =>
              IF Truthy(domain_arg) THEN SentDomain = domain_arg
              ELSE IF Truthy(domain) THEN SentDomain = domain
              ELSE SentDomain \in Range(available_domains)
        /\ (Truthy(domain_arg) \/ Truthy(domain)) => ~ConfigRequested

\* The same when the cache is not empty after the lookup.
C19_WithNonEmptyCache ==
    (available_domains # <<>> \/ pc = "await_config") => C19_DomainPriority

\* The default domain is sent while the cache is empty.
C19_DefaultOutsideCache ==
    /\ op = "register_account" /\ HasCreateReq /\ ~Truthy(domain_arg) /\ ~Truthy(domain)
    /\ available_domains = <<>> /\ SentDomain = "moemail.app"

\* The text and the HTML of the message a detail body carries, as one
\* level of unwrapping finds them: the fields of the mapping under
\* "message" when there is such a mapping (when that mapping holds nothing
\* but a "message" key of its own, it has neither), else the top-level
\* fields.
MessageOf(b) ==
    IF b.envelope = "dict" THEN <<b.inner, b.inner_html>>
    ELSE IF b.envelope = "nested" THEN <<"", "">>
    ELSE <<b.text, b.html>>
\* The same message returned with no envelope.
WithoutEnvelope(b) ==
    [kind |-> "json", envelope |-> "none", text |-> MessageOf(b)[1],
     html |-> MessageOf(b)[2], inner |-> "", inner_html |-> ""]
\* What the call does on a readable detail body that yields v: it returns v
\* when v is a code and else goes on with the list.
DetailResultIs(v) ==
    IF v \in Codes THEN pc = "idle" /\ ret = v /\ code = v
    ELSE code = None /\ WentOn

\* C20: for an entry with no inline content, a detail response that nests
\* the message under "message" gives the result the same message gives
\* when returned with no envelope; one level only is unwrapped, and only
\* when the value under "message" is a mapping.
C20_EnvelopeEquivalence ==
    (op = "fetch_verification_code" /\ DetailAnswered /\ msg.content = ""
        /\ DetailReadable /\ detail_res.body.kind = "json") =>
        LET b == detail_res.body IN
        /\ WithoutEnvelope(b) \in DetailBodies
        /\ DetailResultIs(extract_verification_code(
               <<WithoutEnvelope(b).text, WithoutEnvelope(b).html>>))
        /\ b.envelope = "nondict" =>
               DetailResultIs(extract_verification_code(<<b.text, b.html>>))
        /\ b.envelope = "nested" => (code = None /\ WentOn)

C20_Witness ==
    /\ FetchReturned /\ disp = "detail" /\ msg.content = ""
    /\ detail_res.status = 200 /\ detail_res.body.envelope = "dict"
    /\ detail_res.body.text = "" /\ detail_res.body.inner = "c1"
    /\ ret = "c1"

====
